---- MODULE Spec2Model ----
(***************************************************************************)
(* Model of scripts/create-placeholder.py: a 300x300 RGB canvas is filled  *)
(* with a column gradient, a music-note icon and a caption are drawn, the  *)
(* canvas is saved as a PNG and the size of the file is reported.          *)
(*                                                                         *)
(* The Pillow and os calls are not part of the repository; each is         *)
(* modelled by its documented behaviour at the line of the script that     *)
(* calls it (inclusive, clipped rectangles; exceptions that either are     *)
(* caught by the bare except or end the interpreter with status 1).        *)
(***************************************************************************)
EXTENDS Integers, Sequences, FiniteSets, TLC

VARIABLES pc, i, canvas, op, backend, textOutcome, saveOutcome, file, encSize,
          stdout, size, status, failedStep, runs, lastGood

vars == <<pc, i, canvas, op, backend, textOutcome, saveOutcome, file, encSize,
          stdout, size, status, failedStep, runs, lastGood>>

(* ------------------------------ bounds -------------------------------- *)

\* the largest encoded size, in bytes, the size report is explored for
MaxSize == 3000

\* the number of times the script is run in a row on the same path
MaxRuns == 2

(* ------------------------- program constants -------------------------- *)

\* Image.new('RGB', (300, 300), ...): width and height of the canvas. The
\* script repeats the literal 300 in range(300), in i / 300 and in the
\* corner (i+1, 300) of the gradient rectangle.
W == 300
H == 300

Cols == 0..(W - 1)
Rows == 0..(H - 1)

\* int(s, 16) of a two-digit hex pair, as PIL's colour parser computes it
HexPair(hi, lo) == 16 * hi + lo

\* an 'RGB' pixel: three 8-bit channels, kept packed in one integer
RGB(r, g, b) == (r % 256) * 65536 + (g % 256) * 256 + (b % 256)

\* '#17181c'
Background == RGB(HexPair(1, 7), HexPair(1, 8), HexPair(1, 12))

\* '#62f5a9'
Accent == RGB(HexPair(6, 2), HexPair(15, 5), HexPair(10, 9))

\* the mutant of ColorVal: interpolates with the column after i
ColorValNext(k) == 23 + (13 * (k + 1)) \div W

\* color_val = int(23 + (i / 300) * 13). 13*i/300 is an integer only at
\* i = 0 and otherwise at least 1/300 away from one, so the float product
\* truncates to the exact floor for every i of the loop.
ColorVal(k) == 23 + (13 * k) \div W

\* fill=(color_val, color_val, color_val + 4)
GradientColor(k) == RGB(ColorVal(k), ColorVal(k), ColorVal(k) + 4)

(* --------------------------- drawing model ---------------------------- *)

\* a drawing call as issued by the script: its kind and the corners passed
DrawOp(kind, x0, y0, x1, y1) ==
    [kind |-> kind, x0 |-> x0, y0 |-> y0, x1 |-> x1, y1 |-> y1]

NoOp == DrawOp("none", 0, 0, 0, 0)

\* The pixel buffer is kept column by column, each column as its runs of
\* equal pixels from row 0 down: <<[c |-> colour, n |-> length], ...>> with
\* the lengths adding up to the height and neighbouring runs of different
\* colours, so that two canvases are equal exactly when their pixels are.

\* the colour of row y of a column, searching from run k
RECURSIVE RunAt(_, _, _)
RunAt(col, k, y) ==
    IF y < col[k].n THEN col[k].c ELSE RunAt(col, k + 1, y - col[k].n)

\* getpixel((x, y))
Pixel(cv, x, y) == RunAt(cv[x], 1, y)

\* two run lists, one below the other, as one: the runs that meet are
\* merged when they have the same colour
Join(above, below) ==
    LET last == above[Len(above)]
    IN  IF last.c = below[1].c
        THEN SubSeq(above, 1, Len(above) - 1)
             \o <<[c |-> last.c, n |-> last.n + below[1].n]>>
             \o Tail(below)
        ELSE above \o below

\* the runs of rows lo..hi of the column whose row r has colour at[r]
RECURSIVE Runs(_, _, _)
Runs(at, lo, hi) ==
    IF lo = hi THEN <<[c |-> at[lo], n |-> 1]>>
    ELSE LET mid == (lo + hi) \div 2
         IN  Join(Runs(at, lo, mid), Runs(at, mid + 1, hi))

\* Image.new: every pixel has the background colour
NewCanvas == [x \in Cols |-> <<[c |-> Background, n |-> H]>>]

\* the canvas with the pixels p = <<x, y>> for which covered[p] holds painted,
\* all of them in columns x0..x1; drawing outside the canvas is clipped
\* because only pixels of Cols x Rows exist
Paint(cv, covered, x0, x1, fill) ==
    [x \in Cols |->
        IF x < x0 \/ x > x1 THEN cv[x]
        ELSE LET at == [y \in Rows |->
                          IF covered[<<x, y>>] THEN fill ELSE Pixel(cv, x, y)]
             IN  Runs(at, 0, H - 1)]

\* ImageDraw.rectangle([(x0, y0), (x1, y1)], fill): both corners inclusive
Rectangle(cv, x0, y0, x1, y1, fill) ==
    LET inside == [p \in Cols \X Rows |->
                     x0 <= p[1] /\ p[1] <= x1 /\ y0 <= p[2] /\ p[2] <= y1]
    IN  Paint(cv, inside, x0, x1, fill)

\* the pixel (x, y) lies in the ellipse inscribed in the box (x0,y0)-(x1,y1);
\* coordinates are doubled so that the centre is integral
InEllipse(x, y, x0, y0, x1, y1) ==
    /\ x0 <= x /\ x <= x1 /\ y0 <= y /\ y <= y1
    /\ LET w  == x1 - x0
           h  == y1 - y0
           dx == 2 * x - (x0 + x1)
           dy == 2 * y - (y0 + y1)
       IN  dx * dx * h * h + dy * dy * w * w <= w * w * h * h

\* ImageDraw.ellipse([x0, y0, x1, y1], fill=...)
EllipseFilled(x, y, x0, y0, x1, y1) == InEllipse(x, y, x0, y0, x1, y1)

\* ImageDraw.ellipse([x0, y0, x1, y1], outline=..., width=wd): a ring of
\* width wd inside the box
EllipseOutline(x, y, x0, y0, x1, y1, wd) ==
    /\ InEllipse(x, y, x0, y0, x1, y1)
    /\ ~InEllipse(x, y, x0 + wd, y0 + wd, x1 - wd, y1 - wd)

\* ImageDraw.line([(xa, ya), (xb, yb)], width=wd) for a vertical segment:
\* a band of (wd - 1) / 2 pixels on each side of the segment
LineVertical(x, y, xa, ya, xb, yb, wd) ==
    LET half == (wd - 1) \div 2
        lo   == IF ya <= yb THEN ya ELSE yb
        hi   == IF ya <= yb THEN yb ELSE ya
    IN  xa = xb /\ xa - half <= x /\ x <= xa + half /\ lo <= y /\ y <= hi

\* the three icon calls of the script, with the arguments they pass
HeadBox == <<120, 140, 180, 200>>
HeadWidth == 2
StemFrom == <<175, 150>>
StemTo == <<175, 100>>
StemWidth == 3
FlagBox == <<165, 95, 185, 115>>

InHead(x, y) ==
    EllipseOutline(x, y, HeadBox[1], HeadBox[2], HeadBox[3], HeadBox[4], HeadWidth)

InStem(x, y) ==
    LineVertical(x, y, StemFrom[1], StemFrom[2], StemTo[1], StemTo[2], StemWidth)

InFlag(x, y) ==
    EllipseFilled(x, y, FlagBox[1], FlagBox[2], FlagBox[3], FlagBox[4])

\* draw.text((150, 230), "No Artwork", ..., anchor="mm")
Caption == <<"N", "o", " ", "A", "r", "t", "w", "o", "r", "k">>
TextAt == <<150, 230>>

\* the cell of one character of the drawing backend's default font
CharW == 6
CharH == 11

TextW == Len(Caption) * CharW
TextH == CharH

\* the box the caption's ink lies in: centred on the anchor point when the
\* backend honours anchor="mm", with the point as its top-left corner when
\* the backend ignores the anchor
CaptionBox(mode) ==
    LET x0 == IF mode = "anchor_ok" THEN TextAt[1] - TextW \div 2 ELSE TextAt[1]
        y0 == IF mode = "anchor_ok" THEN TextAt[2] - TextH \div 2 ELSE TextAt[2]
    IN  <<x0, y0, x0 + TextW - 1, y0 + TextH - 1>>

InCaption(x, y, mode) ==
    LET b == CaptionBox(mode)
    IN  b[1] <= x /\ x <= b[3] /\ b[2] <= y /\ y <= b[4]

(* --------------------------- control model ---------------------------- *)

\* the mutant of StepAfter: the icon is drawn before the gradient loop
StepAfterIconFirst(s) ==
    CASE s = "new"      -> "head"
      [] s = "head"     -> "stem"
      [] s = "stem"     -> "flag"
      [] s = "flag"     -> "gradient"
      [] s = "gradient" -> "text"
      [] s = "text"     -> "save"
      [] s = "save"     -> "print1"
      [] s = "print1"   -> "getsize"
      [] s = "getsize"  -> "print2"
      [] OTHER          -> "exit"

\* the mutant of StepAfter: the confirmation line is not printed
StepAfterSkipCreated(s) ==
    CASE s = "new"      -> "gradient"
      [] s = "gradient" -> "head"
      [] s = "head"     -> "stem"
      [] s = "stem"     -> "flag"
      [] s = "flag"     -> "text"
      [] s = "text"     -> "save"
      [] s = "save"     -> "getsize"
      [] s = "getsize"  -> "print2"
      [] OTHER          -> "exit"

\* the statements of the script in the order of the file: Image.new (7),
\* the loop (11-13), the icon (16-18), the caption (21-24), save (28),
\* print (29), getsize (32), print (33), end of file
StepAfter(s) ==
    CASE s = "new"      -> "gradient"
      [] s = "gradient" -> "head"
      [] s = "head"     -> "stem"
      [] s = "stem"     -> "flag"
      [] s = "flag"     -> "text"
      [] s = "text"     -> "save"
      [] s = "save"     -> "print1"
      [] s = "print1"   -> "getsize"
      [] s = "getsize"  -> "print2"
      [] OTHER          -> "exit"

\* the mutant of OnRaise: the caption is drawn outside any try block
OnRaiseNoTry(s) == [pc |-> "exit", status |-> "nonzero", failed |-> s]

\* the mutant of OnRaise: the save is wrapped in the same bare except
OnRaiseSaveCaught(s) ==
    IF s \in {"text", "save"}
    THEN [pc |-> StepAfter(s), status |-> "running", failed |-> "none"]
    ELSE [pc |-> "exit", status |-> "nonzero", failed |-> s]

\* where an exception raised by statement s leaves the run: the caption is
\* inside try/except-pass (21-24) and execution continues after it; every
\* other statement is unguarded, so the interpreter prints a traceback and
\* exits with status 1
OnRaise(s) ==
    IF s = "text"
    THEN [pc |-> StepAfter(s), status |-> "running", failed |-> "none"]
    ELSE [pc |-> "exit", status |-> "nonzero", failed |-> s]

(* ----------------------------- file model ----------------------------- *)

\* the PNG encoding of a canvas, as far as the model needs it: a complete
\* image of the canvas' pixels
PngEncode(cv) == [complete |-> TRUE, pixels |-> cv]

\* what a save interrupted by a write error leaves behind
PngTruncated(cv) == [complete |-> FALSE, pixels |-> cv]

NoFile == [exists |-> FALSE, data |-> <<>>, size |-> 0]

\* a placeholder-new.png left by something else: another picture, larger
\* than any size the encoder is explored for
StaleFile ==
    [exists |-> TRUE, data |-> <<PngEncode(NewCanvas)>>, size |-> MaxSize + 1]

\* the mutant of Written: the file is opened for appending
WrittenAppend(old, blob) == old \o <<blob>>

\* Image.save(path) opens the path with mode "w+b": the old content is
\* truncated away and the file holds the new encoding alone
Written(old, blob) == <<blob>>

\* the sizes the encoder may produce for the canvas
AllSizes == 0..MaxSize
FewSizes == {MaxSize}

\* the mutant of FormatKB: the decimals after the first are cut off
FormatKBTruncated(bytes) == (10 * bytes) \div 1024

\* f"{size / 1024:.1f}" in tenths of a KB. size / 1024 is exact in binary
\* floating point and the format rounds the exact value to the nearest
\* tenth, a tie to the even one
FormatKB(bytes) ==
    LET q == (10 * bytes) \div 1024
        r == (10 * bytes) % 1024
    IN  IF r > 512 \/ (r = 512 /\ q % 2 = 1) THEN q + 1 ELSE q

\* os.path.join(dirname(__file__), '..', 'public', 'img', 'placeholder-new.png')
OutputPath == "scripts/../public/img/placeholder-new.png"

\* print(f"(U+2713) Created optimized placeholder: {output_path}")
CreatedLine ==
    [prefix |-> "(U+2713) Created optimized placeholder: ", path |-> OutputPath,
     whole |-> 0, tenth |-> 0, suffix |-> ""]

\* print(f"(U+2713) Size: {size / 1024:.1f}KB (was 4.4MB)")
SizeLine(bytes) ==
    [prefix |-> "(U+2713) Size: ", path |-> "",
     whole |-> FormatKB(bytes) \div 10, tenth |-> FormatKB(bytes) % 10,
     suffix |-> "KB (was 4.4MB)"]

(* ------------------------------ actions ------------------------------- *)

\* the state after Image.new and ImageDraw.Draw (7-8); the output path is
\* absent or holds a stale file, and nothing is known yet of the backend
Init ==
    /\ pc = StepAfter("new")
    /\ i = 0
    /\ canvas = NewCanvas
    /\ op = NoOp
    /\ backend = "unknown"
    /\ textOutcome = "none"
    /\ saveOutcome = "none"
    /\ file \in {NoFile, StaleFile}
    /\ encSize = {}
    /\ stdout = <<>>
    /\ size = 0
    /\ status = "running"
    /\ failedStep = "none"
    /\ runs = 1
    /\ lastGood = NoFile

\* for i in range(300):
\*     color_val = int(23 + (i / 300) * 13)
\*     draw.rectangle([(i, 0), (i+1, 300)], fill=(color_val, color_val, color_val + 4))
GradientStep ==
    /\ pc = "gradient"
    /\ i < W
    /\ canvas' = Rectangle(canvas, i, 0, i + 1, H, GradientColor(i))
    /\ op' = DrawOp("rectangle", i, 0, i + 1, H)
    /\ i' = i + 1
    /\ pc' = IF i + 1 < W THEN "gradient" ELSE StepAfter("gradient")
    /\ UNCHANGED <<backend, textOutcome, saveOutcome, file, encSize, stdout, size,
                   status, failedStep, runs, lastGood>>

\* draw.ellipse([120, 140, 180, 200], outline='#62f5a9', width=2)
DrawHead ==
    /\ pc = "head"
    /\ canvas' = Paint(canvas, [p \in Cols \X Rows |-> InHead(p[1], p[2])],
                       HeadBox[1], HeadBox[3], Accent)
    /\ op' = DrawOp("ellipse", HeadBox[1], HeadBox[2], HeadBox[3], HeadBox[4])
    /\ pc' = StepAfter("head")
    /\ UNCHANGED <<i, backend, textOutcome, saveOutcome, file, encSize, stdout, size,
                   status, failedStep, runs, lastGood>>

\* draw.line([(175, 150), (175, 100)], fill='#62f5a9', width=3)
DrawStem ==
    /\ pc = "stem"
    /\ canvas' = Paint(canvas, [p \in Cols \X Rows |-> InStem(p[1], p[2])],
                       StemFrom[1] - StemWidth, StemFrom[1] + StemWidth, Accent)
    /\ op' = DrawOp("line", StemFrom[1], StemFrom[2], StemTo[1], StemTo[2])
    /\ pc' = StepAfter("stem")
    /\ UNCHANGED <<i, backend, textOutcome, saveOutcome, file, encSize, stdout, size,
                   status, failedStep, runs, lastGood>>

\* draw.ellipse([165, 95, 185, 115], fill='#62f5a9')
DrawFlag ==
    /\ pc = "flag"
    /\ canvas' = Paint(canvas, [p \in Cols \X Rows |-> InFlag(p[1], p[2])],
                       FlagBox[1], FlagBox[3], Accent)
    /\ op' = DrawOp("ellipse", FlagBox[1], FlagBox[2], FlagBox[3], FlagBox[4])
    /\ pc' = StepAfter("flag")
    /\ UNCHANGED <<i, backend, textOutcome, saveOutcome, file, encSize, stdout, size,
                   status, failedStep, runs, lastGood>>

\* the backend is the same in every run on the machine: it is fixed the
\* first time the caption is drawn
BackendChoices ==
    IF backend = "unknown"
    THEN {"anchor_ok", "anchor_ignored", "anchor_raises"}
    ELSE {backend}

\* try: draw.text((150, 230), "No Artwork", fill='#62f5a9', anchor="mm")
\* on a backend that renders the text, at the anchor or at its default place
DrawText ==
    /\ pc = "text"
    /\ \E b \in BackendChoices \ {"anchor_raises"} :
        /\ backend' = b
        /\ canvas' = Paint(canvas, [p \in Cols \X Rows |-> InCaption(p[1], p[2], b)],
                            CaptionBox(b)[1], CaptionBox(b)[3], Accent)
    /\ op' = DrawOp("text", TextAt[1], TextAt[2], TextAt[1], TextAt[2])
    /\ textOutcome' = "drawn"
    /\ pc' = StepAfter("text")
    /\ UNCHANGED <<i, saveOutcome, file, encSize, stdout, size, status,
                   failedStep, runs, lastGood>>

\* except: pass -- the backend rejects the anchor before it draws anything
TextRaises ==
    /\ pc = "text"
    /\ "anchor_raises" \in BackendChoices
    /\ backend' = "anchor_raises"
    /\ op' = DrawOp("text", TextAt[1], TextAt[2], TextAt[1], TextAt[2])
    /\ textOutcome' = "raised"
    /\ pc' = OnRaise("text").pc
    /\ status' = OnRaise("text").status
    /\ failedStep' = OnRaise("text").failed
    /\ UNCHANGED <<i, canvas, saveOutcome, file, encSize, stdout, size, runs,
                   lastGood>>

\* the encoder is deterministic: the size of the encoding is fixed by the
\* first save and is the same for every later one
SizeChoices(S) == IF encSize = {} THEN S ELSE encSize

\* img.save(output_path, 'PNG', optimize=True, quality=85), succeeding
SaveOK(S) ==
    /\ pc = "save"
    /\ \E n \in SizeChoices(S) :
        /\ encSize' = {n}
        /\ file' = [exists |-> TRUE,
                    data   |-> Written(file.data, PngEncode(canvas)),
                    size   |-> n]
    /\ saveOutcome' = "ok"
    /\ pc' = StepAfter("save")
    /\ UNCHANGED <<i, canvas, op, backend, textOutcome, stdout, size, status,
                   failedStep, runs, lastGood>>

\* img.save raising OSError: the directory is missing (only when there is no
\* file), the path is not writable, or the device fills up after the file
\* was opened and truncated
SaveRaises ==
    /\ pc = "save"
    /\ \E kind \in {"ENOENT", "EACCES", "ENOSPC"} :
        /\ kind = "ENOENT" => ~file.exists
        /\ file' = IF kind = "ENOSPC"
                   THEN [exists |-> TRUE, data |-> <<PngTruncated(canvas)>>, size |-> 0]
                   ELSE file
    /\ saveOutcome' = "raised"
    /\ pc' = OnRaise("save").pc
    /\ status' = OnRaise("save").status
    /\ failedStep' = OnRaise("save").failed
    /\ UNCHANGED <<i, canvas, op, backend, textOutcome, encSize, stdout, size,
                   runs, lastGood>>

\* print(f"... Created optimized placeholder: {output_path}")
PrintCreated ==
    /\ pc = "print1"
    /\ stdout' = Append(stdout, CreatedLine)
    /\ pc' = StepAfter("print1")
    /\ UNCHANGED <<i, canvas, op, backend, textOutcome, saveOutcome, file, encSize, size,
                   status, failedStep, runs, lastGood>>

\* print raising: sys.stdout cannot encode U+2713 (UnicodeEncodeError) or is
\* a closed pipe (BrokenPipeError)
PrintRaises ==
    /\ pc \in {"print1", "print2"}
    /\ pc' = OnRaise(pc).pc
    /\ status' = OnRaise(pc).status
    /\ failedStep' = OnRaise(pc).failed
    /\ UNCHANGED <<i, canvas, op, backend, textOutcome, saveOutcome, file, encSize, stdout,
                   size, runs, lastGood>>

\* os.path.getsize(path): st_size of the file now at the path
StatSize(f) == f.size

\* size = os.path.getsize(output_path)
GetSize ==
    /\ pc = "getsize"
    /\ file.exists
    /\ size' = StatSize(file)
    /\ pc' = StepAfter("getsize")
    /\ UNCHANGED <<i, canvas, op, backend, textOutcome, saveOutcome, file, encSize, stdout,
                   status, failedStep, runs, lastGood>>

\* os.path.getsize raising OSError: another process removed the file
\* between the save and the stat
GetSizeRaises ==
    /\ pc = "getsize"
    /\ file' = NoFile
    /\ pc' = OnRaise("getsize").pc
    /\ status' = OnRaise("getsize").status
    /\ failedStep' = OnRaise("getsize").failed
    /\ UNCHANGED <<i, canvas, op, backend, textOutcome, saveOutcome, encSize, stdout, size,
                   runs, lastGood>>

\* print(f"... Size: {size / 1024:.1f}KB (was 4.4MB)"), then the end of the
\* file: the interpreter exits with status 0
PrintSize ==
    /\ pc = "print2"
    /\ stdout' = Append(stdout, SizeLine(size))
    /\ pc' = StepAfter("print2")
    /\ status' = "zero"
    /\ UNCHANGED <<i, canvas, op, backend, textOutcome, saveOutcome, file, encSize, size,
                   failedStep, runs, lastGood>>

\* the script is invoked again on the same machine: a new process (7-8)
\* with a new canvas; the file system and the backend are what they were
RunAgain ==
    /\ pc = "exit"
    /\ runs < MaxRuns
    /\ runs' = runs + 1
    /\ lastGood' = IF status = "zero" THEN file ELSE lastGood
    /\ pc' = StepAfter("new")
    /\ i' = 0
    /\ canvas' = NewCanvas
    /\ op' = NoOp
    /\ textOutcome' = "none"
    /\ saveOutcome' = "none"
    /\ stdout' = <<>>
    /\ size' = 0
    /\ status' = "running"
    /\ failedStep' = "none"
    /\ UNCHANGED <<backend, file, encSize>>

Run ==
    \/ GradientStep
    \/ DrawHead
    \/ DrawStem
    \/ DrawFlag
    \/ DrawText
    \/ TextRaises
    \/ SaveRaises
    \/ PrintCreated
    \/ PrintRaises
    \/ GetSize
    \/ GetSizeRaises
    \/ PrintSize

Next ==
    \/ Run
    \/ SaveOK(FewSizes)
    \/ RunAgain

Spec == Init /\ [][Next]_vars

\* one run of the script, the encoder's output size ranging over AllSizes
NextSize ==
    \/ Run
    \/ SaveOK(AllSizes)

SpecSize == Init /\ [][NextSize]_vars

(* ------------------------------ properties ---------------------------- *)

Red(p) == p \div 65536
Green(p) == (p \div 256) % 256
Blue(p) == p % 256

Near(a, b) == a - b \in {-1, 0, 1}

\* the number of pixels of a column
RECURSIVE Height(_)
Height(col) == IF col = <<>> THEN 0 ELSE col[1].n + Height(Tail(col))

C2_OpsInBounds ==
    /\ DOMAIN canvas = 0..299
    /\ \A x \in DOMAIN canvas : Height(canvas[x]) = 300
    /\ op.x0 \in 0..299 /\ op.x1 \in 0..299
    /\ op.y0 \in 0..299 /\ op.y1 \in 0..299

\* C3: when the save raises, the run ends with a non-zero exit status and
\* neither output line is printed.
C3_SaveFailureIsFatal ==
    saveOutcome = "raised" =>
        pc = "exit" /\ status = "nonzero" /\ stdout = <<>>

\* a run whose save raised on a path that held a stale file
C3_Witness ==
    saveOutcome = "raised" /\ pc = "exit" /\ file = StaleFile

\* C4: when the caption step raises, that step leaves the canvas as the
\* gradient and icon steps made it, the run goes on to the save step, and no
\* run ends because of the caption.
C4_TextFailureSwallowed ==
    /\ [][(pc = "text" /\ textOutcome' = "raised") =>
            (canvas' = canvas /\ pc' = "save" /\ status' = "running")]_vars
    /\ [](textOutcome = "raised" =>
            (pc \in {"save", "print1", "getsize", "print2", "exit"}
             /\ failedStep # "text"))

\* a run whose caption raised and that went on to save, report and exit 0
C4_Witness ==
    textOutcome = "raised" /\ saveOutcome = "ok" /\ pc = "exit"
    /\ status = "zero" /\ Len(stdout) = 2

\* C5 as stated: a run exits non-zero only if the save raised; every other
\* run exits zero after both lines, and nothing after a successful save ends
\* the run with a non-zero status.
C5_OnlySaveFails ==
    /\ status = "nonzero" => saveOutcome = "raised"
    /\ saveOutcome = "ok" => status # "nonzero"
    /\ status = "zero" => Len(stdout) = 2

\* C5 as amended: a run exits non-zero exactly through an exception of an
\* unguarded statement: the save, or after a successful save the first
\* print, getsize or the second print; never through the caption. A run
\* exits zero only after the confirmation line and then the size line.
C5_ExitStatus ==
    /\ status = "nonzero" =>
        /\ pc = "exit"
        /\ failedStep \in {"save", "print1", "getsize", "print2"}
        /\ failedStep = "save" <=> saveOutcome = "raised"
        /\ Len(stdout) = (IF failedStep \in {"save", "print1"} THEN 0 ELSE 1)
    /\ status = "zero" =>
        /\ pc = "exit" /\ failedStep = "none" /\ saveOutcome = "ok"
        /\ Len(stdout) = 2
        /\ stdout[1] = CreatedLine
        /\ stdout[2].suffix = "KB (was 4.4MB)"
    /\ pc = "exit" => status # "running"

\* the save succeeded, one line was printed, and the run still ended with a
\* non-zero status
C5_Witness ==
    status = "nonzero" /\ saveOutcome = "ok" /\ failedStep = "print2"
    /\ stdout = <<CreatedLine>>

\* C6: after a successful run the file holds the encoding of the run's
\* canvas alone, whatever the path held before (nothing, a stale file, a
\* truncated file, the output of an earlier run), and it is identical to
\* the file the last successful run before it produced.
C6_OutputIndependentOfPrior ==
    (pc = "exit" /\ status = "zero") =>
        /\ file.exists
        /\ Len(file.data) = 1
        /\ file.data[1].complete
        /\ file.data[1].pixels = canvas
        /\ lastGood.exists => file = lastGood

\* a second successful run, over the output of an earlier successful run
C6_Witness ==
    pc = "exit" /\ status = "zero" /\ runs = 2 /\ lastGood.exists

\* C7: the size line has the prefix and the fixed suffix, and its number is
\* the size of the file now at the output path, divided by 1024 and rounded
\* to the nearest tenth.
C7_SizeLine ==
    (pc = "exit" /\ status = "zero") =>
        LET line   == stdout[2]
            tenths == 10 * line.whole + line.tenth
            diff   == 1024 * tenths - 10 * file.size
        IN  /\ line.prefix = "(U+2713) Size: "
            /\ line.suffix = "KB (was 4.4MB)"
            /\ line.whole >= 0 /\ line.tenth \in 0..9
            /\ -512 <= diff /\ diff <= 512

\* a run that saved a file of 768 bytes (0.75 KB) and printed 0.8
C7_Witness ==
    pc = "exit" /\ status = "zero" /\ file.size = 768
    /\ stdout[2].whole = 0 /\ stdout[2].tenth = 8

\* C8: after the gradient step the pixels of column 0 have the colour the
\* canvas was allocated with, #17181c = (23, 24, 28).
C8_GradientStartsAtBackground ==
    pc = "head" =>
        \A y \in 0..299 : Pixel(canvas, 0, y) = RGB(23, 24, 28)

\* C9: iteration i of the gradient loop changes only pixels of column i.
C9_OnlyColumnI ==
    [][(pc = "gradient" /\ i' = i + 1) =>
            \A x \in (0..299) \ {i} : canvas'[x] = canvas[x]]_vars

\* the pixels the icon and the caption of the saved canvas cover
IconOrCaption(x, y) ==
    \/ InHead(x, y) \/ InStem(x, y) \/ InFlag(x, y)
    \/ textOutcome = "drawn" /\ InCaption(x, y, backend)

\* C10: in the canvas that is saved, every pixel on the stem from (175,150)
\* to (175,100) and in the disc of the ellipse (165,95)-(185,115) has the
\* accent colour (98, 245, 169), and every pixel outside the icon and the
\* caption has its gradient colour.
C10_IconOverGradient ==
    pc = "print1" =>
        LET saved == file.data[1].pixels
        IN  \A x \in 0..299 : \A y \in 0..299 :
              /\ (x = 175 /\ 100 <= y /\ y <= 150) => Pixel(saved, x, y) = RGB(98, 245, 169)
              /\ ((x - 175) * (x - 175) + (y - 105) * (y - 105) <= 100)
                    => Pixel(saved, x, y) = RGB(98, 245, 169)
              /\ ~IconOrCaption(x, y) =>
                    LET v == 23 + (13 * x) \div 300
                    IN  Pixel(saved, x, y) = RGB(v, v, v + 4)

\* a canvas was saved whose flag centre and stem end have the accent colour
C10_Witness ==
    /\ pc = "print1" /\ saveOutcome = "ok"
    /\ Pixel(file.data[1].pixels, 175, 105) = Accent
    /\ Pixel(file.data[1].pixels, 175, 150) = Accent
    /\ Pixel(file.data[1].pixels, 0, 0) = RGB(23, 23, 27)

====
